---- MODULE Spec2Model ----
(***************************************************************************)
(* State-machine model of VideoTracker (src/src/videotracker.js): the     *)
(* send* handlers, the ad/content composition (setAdsTracker, funnelling) *)
(* and the attribute assembly.  TrackerState, Tracker and Emitter are not *)
(* part of the checked sources; their operators are modelled from the     *)
(* specification text and are marked as such in the model map.            *)
(***************************************************************************)
EXTENDS Integers, Sequences, FiniteSets, TLC

\* ------------------------------------------------------------- bounds
MaxViewCount == 3     \* cap of the per-tracker view counter
MaxListeners == 2     \* cap of the '*' subscriptions kept on one tracker
MaxPlaytime == 1      \* cap of the accumulated play time
MaxTime == 3          \* cap of the clock (timed specifications only)
MaxBeats == 2         \* heartbeats recorded in the scenario trace

\* The tracker instances of a page: a tracker and the one it may adopt.
Trackers == {"t1", "t2"}
NoTracker == "null"   \* null reference

VARIABLES
  phase,          \* state: PlaybackPhase of each tracker
  resumePhase,    \* state: phase preserved while BUFFERING / SEEKING
  isPlaying,      \* state.isPlaying
  isAdFlag,       \* state._isAd, read by isAd()
  isAdBreak,      \* state: AD_BREAK super-state
  viewCount,      \* state: counter behind getViewId()
  totalPlaytime,  \* state.totalPlaytime
  totalAdPlaytime, \* state.totalAdPlaytime
  adBreakStartedAt, \* state.timeSinceAdBreakStart: instant of the last mark
  lastRendition,  \* this._lastRendition
  lastAdRendition, \* this._lastAdRendition
  lastAd,         \* state: instant of the last goLastAd(), -1 before any
  startedAt,      \* state.timeSinceStarted: instant of the last mark
  initialBufferingHappened, \* state.initialBufferingHappened
  lastBufferType, \* this._lastBufferType
  heartbeat,      \* Tracker: heartbeat timer active
  player,         \* this.player / this.tag bound (TRUE) or null (FALSE)
  parentTracker,  \* this.parentTracker
  adsTracker,     \* this.adsTracker
  listeners,      \* Emitter: '*' callbacks registered by setAdsTracker
  now,            \* clock
  call,           \* observation: the last call [op, t]
  accepted,       \* observation: the call's guard let it proceed
  own,            \* observation: events the called handler sent itself
  delivered,      \* observation: deliveries [sink, name, att] of the call
  thrown,         \* observation: the call ended by a RangeError
  arg,            \* observation: the call's arguments
  ret,            \* observation: the value the call returned
  hist,           \* history of each tracker's own emissions
  trace,          \* scenario: what the content tracker's sink received
  script          \* scenario: position, clock at the start / end calls

progVars == <<phase, resumePhase, isPlaying, isAdFlag, isAdBreak, viewCount,
              totalPlaytime, totalAdPlaytime, adBreakStartedAt, lastRendition,
              lastAdRendition, lastAd, startedAt, initialBufferingHappened,
              lastBufferType, heartbeat, player, parentTracker, adsTracker,
              listeners>>
obsVars == <<call, accepted, own, delivered, thrown, arg, ret>>
vars == <<progVars, now, obsVars, hist, trace, script>>

\* The program state as one value, so that a handler is a function of it.
World == [phase |-> phase, resumePhase |-> resumePhase, isPlaying |-> isPlaying,
          isAdFlag |-> isAdFlag, isAdBreak |-> isAdBreak, viewCount |-> viewCount,
          totalPlaytime |-> totalPlaytime, totalAdPlaytime |-> totalAdPlaytime,
          adBreakStartedAt |-> adBreakStartedAt,
          lastRendition |-> lastRendition, lastAdRendition |-> lastAdRendition,
          lastAd |-> lastAd,
          startedAt |-> startedAt,
          initialBufferingHappened |-> initialBufferingHappened,
          lastBufferType |-> lastBufferType,
          heartbeat |-> heartbeat, player |-> player,
          parentTracker |-> parentTracker, adsTracker |-> adsTracker,
          listeners |-> listeners, now |-> now,
          accepted |-> FALSE, own |-> <<>>, delivered |-> <<>>, thrown |-> FALSE,
          arg |-> <<>>, ret |-> "undefined"]

\* ------------------------------------------------- TrackerState (state)
Phases == {"IDLE", "READY", "REQUESTED", "PLAYING", "PAUSED", "BUFFERING",
           "SEEKING", "ENDED"}
StartedPhases == {"PLAYING", "PAUSED", "BUFFERING", "SEEKING"}

isRequested(W, t) == W.phase[t] \in {"REQUESTED"} \cup StartedPhases
isStarted(W, t) == W.phase[t] \in StartedPhases
isAd(W, t) == W.isAdFlag[t]

Accept(W) == [W EXCEPT !.accepted = TRUE]

\* Enter a phase; is-playing follows the phase on every guarded transition.
Enter(W, t, p) == [W EXCEPT !.phase[t] = p, !.isPlaying[t] = (p = "PLAYING")]

goPlayerReady(W, t) ==
  IF W.phase[t] = "IDLE" THEN Accept(Enter(W, t, "READY")) ELSE W

goRequest(W, t) ==
  IF W.phase[t] \in {"IDLE", "READY", "ENDED"}
  THEN Accept([Enter(W, t, "REQUESTED") EXCEPT !.viewCount[t] = @ + 1])
  ELSE W

goStart(W, t) ==
  IF W.phase[t] = "REQUESTED"
  THEN Accept([Enter(W, t, "PLAYING") EXCEPT !.startedAt[t] = W.now])
  ELSE W

goEnd(W, t) ==
  IF isRequested(W, t)
  THEN Accept([Enter(W, t, "ENDED") EXCEPT !.resumePhase[t] = <<>>,
                                           !.initialBufferingHappened[t] = FALSE])
  ELSE W

goPause(W, t) ==
  IF W.phase[t] = "PLAYING" THEN Accept(Enter(W, t, "PAUSED")) ELSE W

goResume(W, t) ==
  IF W.phase[t] = "PAUSED" THEN Accept(Enter(W, t, "PLAYING")) ELSE W

\* Buffering and seeking keep the phase that was active before them.
Push(W, t, p) ==
  [Enter(W, t, p) EXCEPT !.resumePhase[t] = Append(@, W.phase[t])]
Pop(W, t) ==
  LET st == W.resumePhase[t]
  IN [Enter(W, t, st[Len(st)]) EXCEPT !.resumePhase[t] = SubSeq(st, 1, Len(st) - 1)]

goBufferStart(W, t) ==
  IF W.phase[t] \in {"PLAYING", "PAUSED", "SEEKING"}
  THEN Accept(Push(W, t, "BUFFERING")) ELSE W

goBufferEnd(W, t) ==
  IF W.phase[t] = "BUFFERING" THEN Accept(Pop(W, t)) ELSE W

goSeekStart(W, t) ==
  IF W.phase[t] \in {"PLAYING", "PAUSED"}
  THEN Accept(Push(W, t, "SEEKING")) ELSE W

goSeekEnd(W, t) ==
  IF W.phase[t] = "SEEKING" THEN Accept(Pop(W, t)) ELSE W

\* A seek is open: seek start without seek end.
isSeeking(W, t) ==
  W.phase[t] = "SEEKING" \/ \E i \in DOMAIN W.resumePhase[t] : W.resumePhase[t][i] = "SEEKING"

calculateBufferType(W, t, isInitialBuffering) ==
  IF isInitialBuffering THEN "initial"
  ELSE IF isSeeking(W, t) THEN "seek" ELSE "other"

\* Entering the ad break records the adBreakStart mark and zeroes the
\* accumulator.
goAdBreakStart(W, t) ==
  IF ~W.isAdBreak[t]
  THEN Accept([W EXCEPT !.isAdBreak[t] = TRUE, !.adBreakStartedAt[t] = W.now,
                        !.totalAdPlaytime[t] = 0])
  ELSE W

goAdBreakEnd(W, t) ==
  IF W.isAdBreak[t] THEN Accept([W EXCEPT !.isAdBreak[t] = FALSE]) ELSE W

goLastAd(W, t) == [W EXCEPT !.lastAd[t] = W.now]

goViewCountUp(W, t) == [W EXCEPT !.viewCount[t] = @ + 1]

setIsAdState(W, t, b) == [W EXCEPT !.isAdFlag[t] = b]

\* ------------------------------------------------- Tracker (heartbeat)
startHeartbeat(W, t) == [W EXCEPT !.heartbeat[t] = TRUE]
stopHeartbeat(W, t) == [W EXCEPT !.heartbeat[t] = FALSE]
\* goHeartbeat re-marks the heartbeat reference time, which no attribute of
\* the model reads.
goHeartbeat(W, t) == W

\* ------------------------------------------------- identity, attributes
\* A chain of more links than there are trackers runs round a cycle.
StackDepth == Cardinality(Trackers)

\* The tracker whose state answers getViewId()/getViewSession() for t:
\* the end of the parentTracker chain, NoTracker when the recursion never
\* ends (RangeError: maximum call stack size exceeded).
RECURSIVE viewRoot(_, _, _)
viewRoot(W, t, fuel) ==
  IF W.parentTracker[t] = NoTracker THEN t
  ELSE IF fuel = 0 THEN NoTracker
  ELSE viewRoot(W, W.parentTracker[t], fuel - 1)

getViewId(W, t) ==
  LET r == viewRoot(W, t, StackDepth)
  IN IF r = NoTracker THEN <<>> ELSE <<r, W.viewCount[r]>>

\* Mutant: a parent that was only requested counts as started.
getAdPosition_byRequest(W, t) ==
  IF W.parentTracker[t] # NoTracker
  THEN (IF isRequested(W, W.parentTracker[t]) THEN "mid" ELSE "pre")
  ELSE "null"

getAdPosition(W, t) ==
  IF W.parentTracker[t] # NoTracker
  THEN (IF isStarted(W, W.parentTracker[t]) THEN "mid" ELSE "pre")
  ELSE "null"

\* Attribute bag: the keys the model follows; "undefined" / -1 / {} are
\* absent keys.  ns holds the attribute namespaces present (ad*, content*).
NoAtt == [isAd |-> "undefined", viewId |-> <<>>, ns |-> {},
          adPosition |-> "undefined", timeSinceStarted |-> -1,
          bufferType |-> "undefined", timeSinceAdBreakBegin |-> -1,
          shift |-> "undefined"]

BoolAtt(b) == IF b THEN "true" ELSE "false"

getAttributes(W, t, att) ==
  [att EXCEPT
     !.isAd = IF @ = "undefined" THEN BoolAtt(isAd(W, t)) ELSE @,
     !.viewId = getViewId(W, t),
     !.ns = @ \cup {IF isAd(W, t) THEN "ad" ELSE "content"},
     !.adPosition = IF isAd(W, t) THEN getAdPosition(W, t) ELSE @]

\* ------------------------------------------------- Emitter, funnelling
\* emit calls every '*' callback in subscription order with the same data
\* object; funnelAdEvents bound to p sends it again through p.
RECURSIVE emit(_, _, _, _, _)
RECURSIVE notify(_, _, _, _, _)

\* Mutant: the callback forwards nothing.
funnelAdEvents_dropped(W, p, ev, att, fuel) ==
  [evs |-> <<>>, att |-> att, thrown |-> FALSE]

funnelAdEvents(W, p, ev, att, fuel) ==
  IF fuel = 0 \/ viewRoot(W, p, StackDepth) = NoTracker
  THEN [evs |-> <<>>, att |-> att, thrown |-> TRUE]
  ELSE emit(W, p, ev, getAttributes(W, p, att), fuel - 1)

notify(W, ls, ev, fuel, acc) ==
  IF acc.thrown \/ ls = <<>> THEN acc
  ELSE LET r == funnelAdEvents(W, Head(ls), ev, acc.att, fuel)
       IN notify(W, Tail(ls), ev, fuel,
                 [evs |-> acc.evs \o r.evs, att |-> r.att, thrown |-> r.thrown])

emit(W, t, ev, att, fuel) ==
  notify(W, W.listeners[t], ev, fuel,
         [evs |-> <<[sink |-> t, name |-> ev, att |-> att]>>, att |-> att,
          thrown |-> FALSE])

\* Tracker.send: assemble the attributes, then emit.
send(W, t, ev, att) ==
  IF viewRoot(W, t, StackDepth) = NoTracker THEN [W EXCEPT !.thrown = TRUE]
  ELSE LET a == getAttributes(W, t, att)
           r == emit(W, t, ev, a, StackDepth)
       IN [W EXCEPT !.own = Append(@, [t |-> t, name |-> ev, att |-> a]),
                    !.delivered = @ \o r.evs,
                    !.thrown = r.thrown]

\* Event name of the tracker's current role.
Role(W, t) == IF isAd(W, t) THEN "AD" ELSE "CONTENT"
Ev(W, t, kind) == <<Role(W, t), kind>>

\* ------------------------------------------------- renditions
\* What getRenditionBitrate() may answer: nothing (null / undefined), or a
\* number of bits per second.
NoBitrate == -1
Bitrates == {NoBitrate, 0, 300, 500, 800}

\* !x of JavaScript on these values.
Not(x) == x = NoBitrate \/ x = 0

\* Mutant: the current rendition is stored whatever saveNewRendition says.
getRenditionShift_alwaysSaves(W, t, current, saveNewRendition) ==
  LET last == IF isAd(W, t) THEN W.lastAdRendition[t] ELSE W.lastRendition[t]
      W1 == IF isAd(W, t) THEN [W EXCEPT !.lastAdRendition[t] = current]
            ELSE [W EXCEPT !.lastRendition[t] = current]
  IN [W1 EXCEPT !.ret = IF Not(current) \/ Not(last) THEN "null"
                        ELSE IF current > last THEN "up"
                        ELSE IF current < last THEN "down" ELSE "null"]

\* current is what getRenditionBitrate() answers during the call.
getRenditionShift(W, t, current, saveNewRendition) ==
  LET last == IF isAd(W, t) THEN W.lastAdRendition[t] ELSE W.lastRendition[t]
      W1 == IF ~saveNewRendition THEN W
            ELSE IF isAd(W, t) THEN [W EXCEPT !.lastAdRendition[t] = current]
            ELSE [W EXCEPT !.lastRendition[t] = current]
  IN [W1 EXCEPT !.ret = IF Not(current) \/ Not(last) THEN "null"
                        ELSE IF current > last THEN "up"
                        ELSE IF current < last THEN "down" ELSE "null"]

\* ------------------------------------------------- VideoTracker handlers
\* Each handler maps the world before the call to the world after it.  A
\* RangeError raised inside send leaves the rest of the handler undone.

setIsAd(W, t, b) == setIsAdState(W, t, b)

\* dispose() down the adsTracker chain.  off('*', funnelAdEvents) names the
\* unbound function, which was never subscribed: no callback is removed.
RECURSIVE dispose(_, _, _)
dispose(W, t, fuel) ==
  LET W1 == stopHeartbeat(W, t)
      W2 == IF W1.adsTracker[t] = NoTracker THEN W1
            ELSE IF fuel = 0 THEN [W1 EXCEPT !.thrown = TRUE]
            ELSE dispose(W1, W1.adsTracker[t], fuel - 1)
  IN IF W2.thrown THEN W2 ELSE [W2 EXCEPT !.player[t] = FALSE]

disposeAdsTracker(W, t) ==
  IF W.adsTracker[t] # NoTracker THEN dispose(W, W.adsTracker[t], StackDepth)
  ELSE W

setAdsTracker(W, t, c) ==
  LET W1 == disposeAdsTracker(W, t)
  IN IF W1.thrown \/ c = NoTracker THEN W1
     ELSE [setIsAd(W1, c, TRUE) EXCEPT
             !.adsTracker[t] = c,
             !.parentTracker[c] = t,
             !.listeners[c] = Append(@, t)]

\* options: isAd in {"true", "false", "undefined"}, adsTracker or NoTracker.
setOptions(W, t, optIsAd, optAds) ==
  LET W1 == IF optAds # NoTracker THEN setAdsTracker(W, t, optAds) ELSE W
  IN IF W1.thrown \/ optIsAd = "undefined" THEN W1
     ELSE setIsAd(W1, t, optIsAd = "true")

sendPlayerReady(W, t) ==
  LET g == goPlayerReady(W, t)
  IN IF ~g.accepted THEN g ELSE send(g, t, <<"", "PLAYER_READY">>, NoAtt)

\* Mutant: the *_REQUEST is sent whatever goRequest answers.
sendRequest_unguarded(W, t) ==
  LET g == Accept(goRequest(W, t))
      s == send(g, t, Ev(g, t, "REQUEST"), NoAtt)
  IN IF s.thrown THEN s ELSE goHeartbeat(startHeartbeat(s, t), t)

sendRequest(W, t) ==
  LET g == goRequest(W, t)
  IN IF ~g.accepted THEN g
     ELSE LET s == send(g, t, Ev(g, t, "REQUEST"), NoAtt)
          IN IF s.thrown THEN s ELSE goHeartbeat(startHeartbeat(s, t), t)

\* Mutant: an ad tracker clears its parent's is-playing flag before it asks
\* goStart.
sendStart_earlyParentWrite(W, t) ==
  LET p == W.parentTracker[t]
      W1 == IF isAd(W, t) /\ p # NoTracker THEN [W EXCEPT !.isPlaying[p] = FALSE] ELSE W
      g == goStart(W1, t)
  IN IF ~g.accepted THEN g ELSE send(g, t, Ev(g, t, "START"), NoAtt)

\* Mutant: the *_START is sent whatever goStart answers.
sendStart_unguarded(W, t) ==
  LET g == Accept(goStart(W, t)) IN send(g, t, Ev(g, t, "START"), NoAtt)

sendStart(W, t) ==
  LET g == goStart(W, t)
      p == W.parentTracker[t]
  IN IF ~g.accepted THEN g
     ELSE LET g1 == IF isAd(g, t) /\ p # NoTracker
                    THEN [g EXCEPT !.isPlaying[p] = FALSE] ELSE g
          IN send(g1, t, Ev(g1, t, "START"), NoAtt)

\* Mutant: the view count goes up before the *_END is sent.
sendEnd_countFirst(W, t) ==
  LET g == goEnd(W, t)
  IN IF ~g.accepted THEN g
     ELSE LET g1 == goViewCountUp(stopHeartbeat(g, t), t)
              s == send(g1, t, Ev(g1, t, "END"),
                        [NoAtt EXCEPT !.timeSinceStarted = g.now - g.startedAt[t]])
          IN IF s.thrown THEN s ELSE [s EXCEPT !.totalPlaytime[t] = 0]

\* Mutant: the handler returns right after sending the *_END.
sendEnd_noReset(W, t) ==
  LET g == goEnd(W, t)
  IN IF ~g.accepted THEN g
     ELSE send(stopHeartbeat(g, t), t, Ev(g, t, "END"),
               [NoAtt EXCEPT !.timeSinceStarted = g.now - g.startedAt[t]])

\* Mutant: the end of an ad also counts up the view of the parent.
sendEnd_countsParent(W, t) ==
  LET g == goEnd(W, t)
      p == W.parentTracker[t]
  IN IF ~g.accepted THEN g
     ELSE LET att == [NoAtt EXCEPT !.timeSinceStarted = g.now - g.startedAt[t]]
              g1 == IF isAd(g, t) /\ p # NoTracker
                    THEN [g EXCEPT !.isPlaying[p] = TRUE] ELSE g
              s == send(stopHeartbeat(g1, t), t, Ev(g1, t, "END"), att)
              s1 == IF p # NoTracker /\ isAd(s, t)
                    THEN goViewCountUp(goLastAd(s, p), p) ELSE s
          IN IF s.thrown THEN s
             ELSE [goViewCountUp(s1, t) EXCEPT !.totalPlaytime[t] = 0]

\* Mutant: the phases preserved by an open buffering or seek outlive the
\* view.
sendEnd_keepsResumePhase(W, t) ==
  LET g == goEnd(W, t)
      p == W.parentTracker[t]
  IN IF ~g.accepted THEN g
     ELSE LET att == [NoAtt EXCEPT !.timeSinceStarted = g.now - g.startedAt[t]]
              g1 == IF isAd(g, t) /\ p # NoTracker
                    THEN [g EXCEPT !.isPlaying[p] = TRUE] ELSE g
              s == send(stopHeartbeat(g1, t), t, Ev(g1, t, "END"), att)
              s1 == IF p # NoTracker /\ isAd(s, t) THEN goLastAd(s, p) ELSE s
          IN IF s.thrown THEN s
             ELSE [goViewCountUp(s1, t) EXCEPT !.totalPlaytime[t] = 0,
                                               !.resumePhase[t] = W.resumePhase[t]]

sendEnd(W, t) ==
  LET g == goEnd(W, t)
      p == W.parentTracker[t]
  IN IF ~g.accepted THEN g
     ELSE LET att == [NoAtt EXCEPT !.timeSinceStarted = g.now - g.startedAt[t]]
              g1 == IF isAd(g, t) /\ p # NoTracker
                    THEN [g EXCEPT !.isPlaying[p] = TRUE] ELSE g
              s == send(stopHeartbeat(g1, t), t, Ev(g1, t, "END"), att)
              s1 == IF p # NoTracker /\ isAd(s, t) THEN goLastAd(s, p) ELSE s
          IN IF s.thrown THEN s
             ELSE [goViewCountUp(s1, t) EXCEPT !.totalPlaytime[t] = 0]

sendPause(W, t) ==
  LET g == goPause(W, t)
  IN IF ~g.accepted THEN g ELSE send(g, t, Ev(g, t, "PAUSE"), NoAtt)

\* Mutant: the *_RESUME is sent whatever goResume answers.
sendResume_unguarded(W, t) ==
  LET g == Accept(goResume(W, t)) IN send(g, t, Ev(g, t, "RESUME"), NoAtt)

sendResume(W, t) ==
  LET g == goResume(W, t)
  IN IF ~g.accepted THEN g ELSE send(g, t, Ev(g, t, "RESUME"), NoAtt)

InitialThreshold == 100

\* att.timeSinceStarted is whatever the caller put in att (-1: nothing).
buildBufferAttributes(W, t, att) ==
  LET isInitialBuffering ==
        IF att.timeSinceStarted = -1 \/ att.timeSinceStarted < InitialThreshold
        THEN ~W.initialBufferingHappened[t] ELSE FALSE
  IN [att EXCEPT !.bufferType = calculateBufferType(W, t, isInitialBuffering)]

sendBufferStart(W, t, tss) ==
  LET g == goBufferStart(W, t)
  IN IF ~g.accepted THEN g
     ELSE LET att == buildBufferAttributes(g, t, [NoAtt EXCEPT !.timeSinceStarted = tss])
              g1 == [g EXCEPT !.lastBufferType[t] = att.bufferType]
          IN send(g1, t, Ev(g1, t, "BUFFER_START"), att)

\* Mutant: the end of a buffering always lands in PLAYING.
sendBufferEnd_toPlaying(W, t, tss) ==
  LET g == goBufferEnd(W, t)
  IN IF ~g.accepted THEN g
     ELSE LET att == buildBufferAttributes(g, t, [NoAtt EXCEPT !.timeSinceStarted = tss])
              s == send(Enter(g, t, "PLAYING"), t, Ev(g, t, "BUFFER_END"), att)
          IN IF s.thrown THEN s
             ELSE [s EXCEPT !.initialBufferingHappened[t] = TRUE]

\* Mutant: the *_BUFFER_END keeps the bufferType computed at the end.
sendBufferEnd_recomputes(W, t, tss) ==
  LET g == goBufferEnd(W, t)
  IN IF ~g.accepted THEN g
     ELSE LET att == buildBufferAttributes(g, t, [NoAtt EXCEPT !.timeSinceStarted = tss])
              s == send(g, t, Ev(g, t, "BUFFER_END"), att)
          IN IF s.thrown THEN s
             ELSE [s EXCEPT !.initialBufferingHappened[t] = TRUE]

sendBufferEnd(W, t, tss) ==
  LET g == goBufferEnd(W, t)
  IN IF ~g.accepted THEN g
     ELSE LET att0 == buildBufferAttributes(g, t, [NoAtt EXCEPT !.timeSinceStarted = tss])
              att == IF g.lastBufferType[t] # "null"
                     THEN [att0 EXCEPT !.bufferType = g.lastBufferType[t]] ELSE att0
              s == send(g, t, Ev(g, t, "BUFFER_END"), att)
          IN IF s.thrown THEN s
             ELSE [s EXCEPT !.initialBufferingHappened[t] = TRUE]

sendSeekStart(W, t) ==
  LET g == goSeekStart(W, t)
  IN IF ~g.accepted THEN g ELSE send(g, t, Ev(g, t, "SEEK_START"), NoAtt)

sendSeekEnd(W, t) ==
  LET g == goSeekEnd(W, t)
  IN IF ~g.accepted THEN g ELSE send(g, t, Ev(g, t, "SEEK_END"), NoAtt)

\* goDownload and goError always succeed and leave the phase alone.
sendDownload(W, t) == send(Accept(W), t, <<"", "DOWNLOAD">>, NoAtt)

\* Mutant: goError ends the view.
sendError_endsView(W, t) ==
  send(Accept(Enter(W, t, "ENDED")), t, Ev(W, t, "ERROR"),
       [NoAtt EXCEPT !.isAd = BoolAtt(isAd(W, t))])

sendError(W, t) ==
  send(Accept(W), t, Ev(W, t, "ERROR"), [NoAtt EXCEPT !.isAd = BoolAtt(isAd(W, t))])

\* goRenditionChange always succeeds and re-marks
\* timeSinceLastRenditionChange.
sendRenditionChanged(W, t, current) ==
  LET g == getRenditionShift(W, t, current, TRUE)
  IN send([Accept(g) EXCEPT !.ret = "undefined"], t, Ev(g, t, "RENDITION_CHANGE"),
          [NoAtt EXCEPT !.shift = g.ret])

\* Mutant: the heartbeat is sent whatever the state says.
sendHeartbeat_unguarded(W, t) ==
  LET s == send(Accept(W), t, Ev(W, t, "HEARTBEAT"), NoAtt)
  IN IF s.thrown THEN s ELSE goHeartbeat(s, t)

sendHeartbeat(W, t) ==
  IF isRequested(W, t)
  THEN LET s == send(Accept(W), t, Ev(W, t, "HEARTBEAT"), NoAtt)
       IN IF s.thrown THEN s ELSE goHeartbeat(s, t)
  ELSE W

\* Mutant: the parent's is-playing flag is left as it was.
sendAdBreakStart_parentKeepsPlaying(W, t) ==
  LET g == IF isAd(W, t) THEN goAdBreakStart(W, t) ELSE W
  IN IF ~g.accepted THEN g
     ELSE send([g EXCEPT !.totalAdPlaytime[t] = 0], t, <<"AD", "BREAK_START">>, NoAtt)

sendAdBreakStart(W, t) ==
  LET g == IF isAd(W, t) THEN goAdBreakStart(W, t) ELSE W
      p == W.parentTracker[t]
  IN IF ~g.accepted THEN g
     ELSE LET g0 == [g EXCEPT !.totalAdPlaytime[t] = 0]
              g1 == IF p # NoTracker THEN [g0 EXCEPT !.isPlaying[p] = FALSE] ELSE g0
          IN send(g1, t, <<"AD", "BREAK_START">>, NoAtt)

sendAdBreakEnd(W, t) ==
  LET g == IF isAd(W, t) THEN goAdBreakEnd(W, t) ELSE W
      p == W.parentTracker[t]
  IN IF ~g.accepted THEN g
     ELSE LET att == [NoAtt EXCEPT
                         !.timeSinceAdBreakBegin = g.now - g.adBreakStartedAt[t]]
              s == send(g, t, <<"AD", "BREAK_END">>, att)
              s1 == IF p # NoTracker THEN [s EXCEPT !.isPlaying[p] = TRUE] ELSE s
              s2 == stopHeartbeat(s1, t)
          IN IF s.thrown THEN s
             ELSE IF p # NoTracker /\ isAd(s2, t) THEN goLastAd(s2, p) ELSE s2

\* goAdQuartile only re-marks timeSinceLastAdQuartile.
sendAdQuartile(W, t) ==
  IF isAd(W, t) THEN send(Accept(W), t, <<"AD", "QUARTILE">>, NoAtt) ELSE W

\* Mutant: the isAd gate is missing.
sendAdClick_ungated(W, t) == send(Accept(W), t, <<"AD", "CLICK">>, NoAtt)

sendAdClick(W, t) ==
  IF isAd(W, t) THEN send(Accept(W), t, <<"AD", "CLICK">>, NoAtt) ELSE W

\* ------------------------------------------------- history of emissions
NoHist == [used |-> FALSE, reqOpen |-> FALSE, starts |-> 0,
           reqId |-> <<>>, prevReqId |-> <<>>,
           open |-> {}, bufType |-> "none", bufEnded |-> FALSE,
           detachedFrom |-> NoTracker, endedIn |-> "none"]

\* used: the tracker has emitted an event itself; reqOpen: it has emitted a
\* *_REQUEST and no sendEnd was accepted since; starts: *_START events since
\* that *_REQUEST (2 stands for two or more); reqId / prevReqId: the view
\* ids carried by its last and its last but one *_REQUEST; open: the pairs
\* (PAUSE, BUFFER, SEEK) of which it has emitted the first event and not the
\* second in the current view; bufType: the bufferType of its last
\* *_BUFFER_START; bufEnded: it has emitted a *_BUFFER_END in the current
\* view; detachedFrom: the parent it was last detached from, NoTracker once
\* it is attached again; endedIn: the phase in which its last view was ended,
\* until the next *_START.
HistEvent(h, e) ==
  LET h1 == [h EXCEPT !.used = TRUE]
      k == e.name[2]
  IN IF k = "REQUEST"
     THEN [h1 EXCEPT !.reqOpen = TRUE, !.starts = 0,
                     !.prevReqId = h.reqId, !.reqId = e.att.viewId]
     ELSE IF k = "START"
     THEN [h1 EXCEPT !.starts = IF @ < 2 THEN @ + 1 ELSE 2, !.endedIn = "none"]
     ELSE IF k = "PAUSE" THEN [h1 EXCEPT !.open = @ \cup {"PAUSE"}]
     ELSE IF k = "RESUME" THEN [h1 EXCEPT !.open = @ \ {"PAUSE"}]
     ELSE IF k = "BUFFER_START"
     THEN [h1 EXCEPT !.open = @ \cup {"BUFFER"}, !.bufType = e.att.bufferType]
     ELSE IF k = "BUFFER_END"
     THEN [h1 EXCEPT !.open = @ \ {"BUFFER"}, !.bufEnded = TRUE]
     ELSE IF k = "SEEK_START" THEN [h1 EXCEPT !.open = @ \cup {"SEEK"}]
     ELSE IF k = "SEEK_END" THEN [h1 EXCEPT !.open = @ \ {"SEEK"}]
     ELSE h1

\* The ads tracker the call detaches from t: the one disposeAdsTracker()
\* disposes, or the one setAdsTracker(c) replaces by another.
Detached(op, t, W) ==
  IF t = NoTracker \/ W.thrown THEN NoTracker
  ELSE IF op = "disposeAdsTracker" THEN adsTracker[t]
  ELSE IF op = "setAdsTracker" /\ W.arg # <<adsTracker[t]>> THEN adsTracker[t]
  ELSE NoTracker

\* The tracker the call attaches.
Attached(op, W) ==
  IF op = "setAdsTracker" /\ ~W.thrown /\ W.arg # <<>> THEN W.arg[1] ELSE NoTracker

HistAfter(op, t, W) ==
  LET h0 == IF t = NoTracker THEN NoHist ELSE hist[t]
      h1 == IF W.own # <<>> THEN HistEvent(h0, W.own[1]) ELSE h0
      h2 == IF op = "sendEnd" /\ W.accepted
            THEN [h1 EXCEPT !.reqOpen = FALSE, !.open = {}, !.bufEnded = FALSE,
                            !.endedIn = phase[t]]
            ELSE h1
      hs == IF t = NoTracker THEN hist ELSE [hist EXCEPT ![t] = h2]
  IN [c \in Trackers |->
        IF c = Attached(op, W) THEN [hs[c] EXCEPT !.detachedFrom = NoTracker]
        ELSE IF c = Detached(op, t, W) THEN [hs[c] EXCEPT !.detachedFrom = t]
        ELSE hs[c]]

\* ------------------------------------------------- actions
WithinBounds(W) ==
  \A t \in Trackers :
    /\ W.viewCount[t] <= MaxViewCount
    /\ Len(W.listeners[t]) <= MaxListeners
    /\ W.totalPlaytime[t] <= MaxPlaytime
    /\ W.totalAdPlaytime[t] <= MaxPlaytime

Apply(op, t, W) ==
  /\ WithinBounds(W)
  /\ phase' = W.phase
  /\ resumePhase' = W.resumePhase
  /\ isPlaying' = W.isPlaying
  /\ isAdFlag' = W.isAdFlag
  /\ isAdBreak' = W.isAdBreak
  /\ viewCount' = W.viewCount
  /\ totalPlaytime' = W.totalPlaytime
  /\ totalAdPlaytime' = W.totalAdPlaytime
  /\ adBreakStartedAt' = W.adBreakStartedAt
  /\ lastRendition' = W.lastRendition
  /\ lastAdRendition' = W.lastAdRendition
  /\ lastAd' = W.lastAd
  /\ startedAt' = W.startedAt
  /\ initialBufferingHappened' = W.initialBufferingHappened
  /\ lastBufferType' = W.lastBufferType
  /\ heartbeat' = W.heartbeat
  /\ player' = W.player
  /\ parentTracker' = W.parentTracker
  /\ adsTracker' = W.adsTracker
  /\ listeners' = W.listeners
  /\ now' = now
  /\ call' = [op |-> op, t |-> t]
  /\ accepted' = W.accepted
  /\ own' = W.own
  /\ delivered' = W.delivered
  /\ thrown' = W.thrown
  /\ arg' = W.arg
  /\ ret' = W.ret
  /\ hist' = HistAfter(op, t, W)

Call(op, t, W) == Apply(op, t, W) /\ UNCHANGED <<trace, script>>

Init ==
  /\ phase = [t \in Trackers |-> "IDLE"]
  /\ resumePhase = [t \in Trackers |-> <<>>]
  /\ isPlaying = [t \in Trackers |-> FALSE]
  /\ isAdFlag \in [Trackers -> BOOLEAN]      \* new VideoTracker(player, {isAd})
  /\ isAdBreak = [t \in Trackers |-> FALSE]
  /\ viewCount = [t \in Trackers |-> 0]
  /\ totalPlaytime = [t \in Trackers |-> 0]
  /\ totalAdPlaytime = [t \in Trackers |-> 0]
  /\ adBreakStartedAt = [t \in Trackers |-> 0]
  /\ lastRendition = [t \in Trackers |-> NoBitrate]
  /\ lastAdRendition = [t \in Trackers |-> NoBitrate]
  /\ lastAd = [t \in Trackers |-> -1]
  /\ startedAt = [t \in Trackers |-> 0]
  /\ initialBufferingHappened = [t \in Trackers |-> FALSE]
  /\ lastBufferType = [t \in Trackers |-> "null"]
  /\ heartbeat = [t \in Trackers |-> FALSE]
  /\ player = [t \in Trackers |-> TRUE]
  /\ parentTracker = [t \in Trackers |-> NoTracker]
  /\ adsTracker = [t \in Trackers |-> NoTracker]
  /\ listeners = [t \in Trackers |-> <<>>]
  /\ now = 0
  /\ call = [op |-> "new", t |-> NoTracker]
  /\ accepted = FALSE
  /\ own = <<>>
  /\ delivered = <<>>
  /\ thrown = FALSE
  /\ arg = <<>>
  /\ ret = "undefined"
  /\ hist = [t \in Trackers |-> NoHist]
  /\ trace = <<>>
  /\ script = [pc |-> 0, tStart |-> 0, tEnd |-> 0, beats |-> 0]

\* A call of op on one of the trackers of T (on one of the pairs of P).
Pairs == (Trackers \X (Trackers \cup {NoTracker}))

CallSetIsAd(T) == \E t \in T, b \in BOOLEAN : Call("setIsAd", t, setIsAd(World, t, b))
CallSetOptions(P) ==
  \E pr \in P, i \in {"true", "false", "undefined"} :
    Call("setOptions", pr[1], setOptions(World, pr[1], i, pr[2]))
CallSetAdsTracker(P) ==
  \E pr \in P :
    Call("setAdsTracker", pr[1],
         setAdsTracker([World EXCEPT !.arg = <<pr[2]>>], pr[1], pr[2]))
CallDisposeAdsTracker(T) ==
  \E t \in T : Call("disposeAdsTracker", t, disposeAdsTracker(World, t))
CallDispose(T) == \E t \in T : Call("dispose", t, dispose(World, t, StackDepth))
CallSendPlayerReady(T) == \E t \in T : Call("sendPlayerReady", t, sendPlayerReady(World, t))
CallSendRequest(T) == \E t \in T : Call("sendRequest", t, sendRequest(World, t))
CallSendStart(T) == \E t \in T : Call("sendStart", t, sendStart(World, t))
CallSendEnd(T) == \E t \in T : Call("sendEnd", t, sendEnd(World, t))
CallSendPause(T) == \E t \in T : Call("sendPause", t, sendPause(World, t))
CallSendResume(T) == \E t \in T : Call("sendResume", t, sendResume(World, t))
CallSendBufferStart(T) ==
  \E t \in T, tss \in {-1, InitialThreshold} :
    Call("sendBufferStart", t, sendBufferStart([World EXCEPT !.arg = <<tss>>], t, tss))
CallSendBufferEnd(T) ==
  \E t \in T, tss \in {-1, InitialThreshold} :
    Call("sendBufferEnd", t, sendBufferEnd([World EXCEPT !.arg = <<tss>>], t, tss))
CallSendSeekStart(T) == \E t \in T : Call("sendSeekStart", t, sendSeekStart(World, t))
CallSendSeekEnd(T) == \E t \in T : Call("sendSeekEnd", t, sendSeekEnd(World, t))
CallSendDownload(T) == \E t \in T : Call("sendDownload", t, sendDownload(World, t))
CallSendError(T) == \E t \in T : Call("sendError", t, sendError(World, t))
CallGetRenditionShift(T) ==
  \E t \in T, current \in Bitrates, save \in BOOLEAN :
    Call("getRenditionShift", t,
         getRenditionShift([World EXCEPT !.arg = <<current, save>>], t, current, save))
CallSendRenditionChanged(T, B) ==
  \E t \in T, current \in B :
    Call("sendRenditionChanged", t,
         sendRenditionChanged([World EXCEPT !.arg = <<current>>], t, current))
CallSendHeartbeat(T) == \E t \in T : Call("sendHeartbeat", t, sendHeartbeat(World, t))
CallSendAdBreakStart(T) == \E t \in T : Call("sendAdBreakStart", t, sendAdBreakStart(World, t))
CallSendAdBreakEnd(T) == \E t \in T : Call("sendAdBreakEnd", t, sendAdBreakEnd(World, t))
CallSendAdQuartile(T) == \E t \in T : Call("sendAdQuartile", t, sendAdQuartile(World, t))
CallSendAdClick(T) == \E t \in T : Call("sendAdClick", t, sendAdClick(World, t))

\* Play time accrues while the state says the video is playing.
PlaytimeAccrues(T) ==
  \E t \in T :
    /\ isPlaying[t]
    /\ totalPlaytime[t] < MaxPlaytime
    /\ Call("time", NoTracker, [World EXCEPT !.totalPlaytime[t] = @ + 1])

\* Ad play time accrues in the ad tracker's state while its ad is playing.
AdPlaytimeAccrues(T) ==
  \E t \in T :
    /\ isPlaying[t] /\ isAdFlag[t]
    /\ totalAdPlaytime[t] < MaxPlaytime
    /\ Call("time", NoTracker, [World EXCEPT !.totalAdPlaytime[t] = @ + 1])

Content == "t1"
Ad == "t2"

\* The first setAdsTracker call of a tracker.
FirstAttach(t, c) == {pr \in {<<t, c>>} : adsTracker[t] = NoTracker}

\* Spec: a tracker that may adopt the other one as its ads tracker, the
\* role changes of the adopted one and the request / start / end lifecycle
\* of both.
Next ==
  \/ CallSetAdsTracker(FirstAttach(Content, Ad))
  \/ CallSetIsAd({Ad})
  \/ CallSendRequest(Trackers)
  \/ CallSendStart(Trackers)
  \/ CallSendEnd(Trackers)
  \/ PlaytimeAccrues({Content})

Spec == Init /\ [][Next]_vars

\* SpecAds: the same pair with the ad-only calls.
NextAds ==
  \/ CallSetAdsTracker(FirstAttach(Content, Ad))
  \/ CallSetIsAd({Ad})
  \/ CallSendRequest(Trackers)
  \/ CallSendStart(Trackers)
  \/ CallSendEnd(Trackers)
  \/ CallSendAdBreakStart({Ad})
  \/ CallSendAdBreakEnd({Ad})
  \/ CallSendAdQuartile(Trackers)
  \/ CallSendAdClick(Trackers)

SpecAds == Init /\ [][NextAds]_vars

\* SpecView: the whole send* surface on one tracker that has no parent.
NextView ==
  \/ CallSendPlayerReady({Content})
  \/ CallSendRequest({Content})
  \/ CallSendStart({Content})
  \/ CallSendEnd({Content})
  \/ CallSendPause({Content})
  \/ CallSendResume({Content})
  \/ CallSendBufferStart({Content})
  \/ CallSendBufferEnd({Content})
  \/ CallSendSeekStart({Content})
  \/ CallSendSeekEnd({Content})
  \/ CallSendDownload({Content})
  \/ CallSendError({Content})
  \/ CallSendRenditionChanged({Content}, {300, 800})
  \/ CallSendHeartbeat({Content})
  \/ CallSendAdBreakStart({Content})
  \/ CallSendAdBreakEnd({Content})
  \/ CallSendAdQuartile({Content})
  \/ CallSendAdClick({Content})

SpecView == Init /\ [][NextView]_vars

\* SpecLinks: every setAdsTracker / dispose call on every pair, with the
\* calls that make the trackers emit.
NextLinks ==
  \/ CallSetAdsTracker(Pairs)
  \/ CallDisposeAdsTracker(Trackers)
  \/ CallDispose(Trackers)
  \/ CallSendRequest(Trackers)
  \/ CallSendDownload(Trackers)
  \/ CallSendError(Trackers)

SpecLinks == Init /\ [][NextLinks]_vars

\* SpecScenario: content request and start, an ad tracker attached, the ad
\* requested, started and ended, then the content ended; the clock and the
\* heartbeat timers run in between.
RECURSIVE AtSink(_, _)
AtSink(ds, p) ==
  IF ds = <<>> THEN <<>>
  ELSE LET d == Head(ds)
       IN (IF d.sink = p
           THEN <<[name |-> d.name, timeSinceStarted |-> d.att.timeSinceStarted]>>
           ELSE <<>>) \o AtSink(Tail(ds), p)

Scripted(k, op, t, W) ==
  /\ script.pc = k
  /\ Apply(op, t, W)
  /\ trace' = trace \o AtSink(W.delivered, Content)
  /\ script' = [script EXCEPT !.pc = k + 1,
                              !.tStart = IF k = 1 THEN now ELSE @,
                              !.tEnd = IF k = 6 THEN now ELSE @]

ContentRequest == Scripted(0, "sendRequest", Content, sendRequest(World, Content))
ContentStart == Scripted(1, "sendStart", Content, sendStart(World, Content))
AttachAd ==
  Scripted(2, "setAdsTracker", Content,
           setAdsTracker([World EXCEPT !.arg = <<Ad>>], Content, Ad))
AdRequest == Scripted(3, "sendRequest", Ad, sendRequest(World, Ad))
AdStart == Scripted(4, "sendStart", Ad, sendStart(World, Ad))
AdEnd == Scripted(5, "sendEnd", Ad, sendEnd(World, Ad))
ContentEnd == Scripted(6, "sendEnd", Content, sendEnd(World, Content))

\* The heartbeat timer of a tracker fires.
HeartbeatFires ==
  \E t \in Trackers :
    /\ heartbeat[t]
    /\ script.beats < MaxBeats
    /\ Apply("sendHeartbeat", t, sendHeartbeat(World, t))
    /\ trace' = trace \o AtSink(sendHeartbeat(World, t).delivered, Content)
    /\ script' = [script EXCEPT !.beats = @ + 1]

Tick ==
  /\ now < MaxTime
  /\ now' = now + 1
  /\ UNCHANGED <<progVars, obsVars, hist, trace, script>>

NextScenario ==
  \/ ContentRequest
  \/ ContentStart
  \/ AttachAd
  \/ AdRequest
  \/ AdStart
  \/ AdEnd
  \/ ContentEnd
  \/ HeartbeatFires
  \/ Tick

InitScenario == Init /\ ~isAdFlag[Content]

SpecScenario == InitScenario /\ [][NextScenario]_vars

\* SpecBreak: a content tracker, its ads tracker and the ad breaks of the
\* latter; the clock is followed while an ad break is open.
BreakTick == isAdBreak[Ad] /\ Tick

NextBreak ==
  \/ CallSetAdsTracker(FirstAttach(Content, Ad))
  \/ CallSendRequest(Trackers)
  \/ CallSendStart(Trackers)
  \/ CallSendEnd({Ad})
  \/ CallSendAdBreakStart({Ad})
  \/ CallSendAdBreakEnd({Ad})
  \/ AdPlaytimeAccrues({Ad})
  \/ BreakTick

SpecBreak == InitScenario /\ [][NextBreak]_vars

\* SpecBuffer: the views of one tracker with bufferings and seeks, the clock
\* running; one step of the clock is InitialThreshold milliseconds.
NextBuffer ==
  \/ CallSendRequest({Content})
  \/ CallSendStart({Content})
  \/ CallSendEnd({Content})
  \/ CallSendBufferStart({Content})
  \/ CallSendBufferEnd({Content})
  \/ CallSendSeekStart({Content})
  \/ CallSendSeekEnd({Content})
  \/ Tick

SpecBuffer == Init /\ [][NextBuffer]_vars

\* SpecDispose: a tracker and its ads tracker, disposed at any moment, and
\* the host callbacks that may arrive before and after.
NextDispose ==
  \/ CallSetAdsTracker(FirstAttach(Content, Ad))
  \/ CallDispose(Trackers)
  \/ CallSendRequest(Trackers)
  \/ CallSendEnd(Trackers)
  \/ CallSendHeartbeat(Trackers)
  \/ CallSendDownload(Trackers)

SpecDispose == Init /\ [][NextDispose]_vars

\* SpecDetach: a tracker adopts an ads tracker and gives it up again, while
\* both go through their views.
NextDetach ==
  \/ CallSetAdsTracker(FirstAttach(Content, Ad))
  \/ CallDisposeAdsTracker({Content})
  \/ CallSendRequest(Trackers)
  \/ CallSendStart(Trackers)
  \/ CallSendEnd(Trackers)

SpecDetach == InitScenario /\ [][NextDetach]_vars

\* SpecRendition: rendition shifts of one tracker in both roles.
NextRendition ==
  \/ CallSetIsAd({Content})
  \/ CallGetRenditionShift({Content})
  \/ CallSendRenditionChanged({Content}, Bitrates)

SpecRendition == Init /\ [][NextRendition]_vars

\* ------------------------------------------------- claims
\* The called handler sent an event of this kind itself.
Own(kind) == own # <<>> /\ own[1].name[2] = kind

\* C1: two sendRequest calls on one tracker with no accepted sendEnd between
\* them emit exactly one *_REQUEST: a tracker emits a *_REQUEST only from
\* sendRequest and only when no *_REQUEST of it is open, and a sendRequest
\* arriving while one is open emits nothing.
C1_OneRequestPerView ==
  [][/\ Own("REQUEST")' => (call'.op = "sendRequest" /\ ~hist[call'.t].reqOpen)
     /\ (call'.op = "sendRequest" /\ hist[call'.t].reqOpen)
           => (own' = <<>> /\ delivered' = <<>>)]_vars

C1_Witness ==
  /\ call.op = "sendRequest" /\ ~accepted /\ own = <<>>
  /\ hist[call.t].reqOpen /\ hist[call.t].used

\* C2: sendStart emits a *_START only when a *_REQUEST of the current view
\* has been emitted and no *_START of that view yet; otherwise (right after
\* construction included) it emits nothing and does not fail.
C2_StartOncePerRequestedView ==
  [][/\ Own("START")' =>
          /\ call'.op = "sendStart"
          /\ hist[call'.t].reqOpen /\ hist[call'.t].starts = 0
     /\ (call'.op = "sendStart" /\ (~hist[call'.t].reqOpen \/ hist[call'.t].starts > 0))
           => (own' = <<>> /\ delivered' = <<>> /\ ~thrown')]_vars

C2_Witness ==
  /\ call.op = "sendStart" /\ ~accepted /\ own = <<>> /\ ~thrown
  /\ phase[call.t] = "IDLE" /\ ~hist[call.t].used

\* C5 as stated: after an accepted sendEnd on a content tracker its view id
\* differs from the id the *_END carried and totalPlaytime is 0.
C5_AsStated ==
  (call.op = "sendEnd" /\ accepted /\ ~isAdFlag[call.t]) =>
     /\ Own("END")
     /\ getViewId(World, call.t) # own[1].att.viewId
     /\ totalPlaytime[call.t] = 0

\* C5 (amended): the same for a content tracker that has no parent.
C5_NewViewAfterEnd ==
  (call.op = "sendEnd" /\ accepted /\ ~isAdFlag[call.t]
     /\ parentTracker[call.t] = NoTracker) =>
     /\ Own("END")
     /\ getViewId(World, call.t) # own[1].att.viewId
     /\ totalPlaytime[call.t] = 0

C5_Witness ==
  /\ call.op = "sendEnd" /\ accepted /\ ~isAdFlag[call.t]
  /\ parentTracker[call.t] = NoTracker
  /\ Own("END") /\ own[1].att.viewId = <<call.t, viewCount[call.t] - 1>>

\* C9 as stated: once a tracker has emitted an event, no call changes its
\* isAd flag.
C9_AsStated ==
  [][\A t \in Trackers : hist[t].used => isAdFlag'[t] = isAdFlag[t]]_vars

PhaseRestricted == {"sendPlayerReady", "sendRequest", "sendStart", "sendEnd",
                    "sendPause", "sendResume", "sendBufferStart", "sendBufferEnd",
                    "sendSeekStart", "sendSeekEnd", "sendAdBreakStart",
                    "sendAdBreakEnd"}

\* C3: a phase-restricted call that its guard rejects emits nothing, raises
\* no error and changes nothing: not the tracker's phase, view id or
\* heartbeat timer, not the parent's is-playing flag or last-ad bookkeeping.
C3_RejectedCallChangesNothing ==
  [][(call'.op \in PhaseRestricted /\ ~accepted') =>
        /\ own' = <<>> /\ delivered' = <<>> /\ ~thrown'
        /\ UNCHANGED progVars]_vars

\* a second sendStart on an attached ad tracker while its parent is playing
C3_Witness ==
  /\ call.op = "sendStart" /\ ~accepted /\ own = <<>>
  /\ isAdFlag[call.t] /\ phase[call.t] \in StartedPhases
  /\ parentTracker[call.t] # NoTracker
  /\ isPlaying[parentTracker[call.t]]

AdOnly == {"sendAdBreakStart", "sendAdBreakEnd", "sendAdQuartile", "sendAdClick"}

\* C8: while a tracker's isAd flag is false the ad-only calls emit nothing
\* and change no state of any tracker.
C8_AdOnlyCallsGated ==
  [][(call'.op \in AdOnly /\ ~isAdFlag[call'.t]) =>
        /\ own' = <<>> /\ delivered' = <<>>
        /\ UNCHANGED progVars]_vars

\* an ad-only call on an attached tracker whose flag was set back to false,
\* with its parent playing
C8_Witness ==
  /\ call.op \in AdOnly /\ ~isAdFlag[call.t] /\ own = <<>>
  /\ parentTracker[call.t] # NoTracker
  /\ isPlaying[parentTracker[call.t]]

\* C4: for a tracker without a parent, every event it emits while a
\* *_REQUEST of it is open (the *_END that closes the view included) carries
\* the view id of that *_REQUEST, and the next *_REQUEST carries another id.
C4_ViewIdStablePerView ==
  [][(own' # <<>> /\ parentTracker'[call'.t] = NoTracker) =>
        LET e == own'[1]
            h == hist[call'.t]
        IN /\ (e.name[2] # "REQUEST" /\ h.reqOpen) => e.att.viewId = h.reqId
           /\ (e.name[2] = "REQUEST" /\ h.reqId # <<>>) => e.att.viewId # h.reqId]_vars

\* the *_REQUEST of a second view has been emitted
C4_Witness ==
  /\ call.op = "sendRequest" /\ accepted /\ Own("REQUEST")
  /\ parentTracker[call.t] = NoTracker
  /\ hist[call.t].prevReqId # <<>>
  /\ hist[call.t].prevReqId # own[1].att.viewId

\* C6 as stated: an event the attached ads tracker emits is delivered through
\* the parent's sink with the name and the attributes the child emitted.
C6_AsStated ==
  \A p \in Trackers :
    (own # <<>> /\ ~thrown /\ adsTracker[p] = call.t /\ parentTracker[call.t] = p) =>
       \E i \in DOMAIN delivered :
          /\ delivered[i].sink = p
          /\ delivered[i].name = own[1].name
          /\ delivered[i].att = own[1].att

\* C10 as stated: the parent / child relation is acyclic, so that getViewId
\* and dispose terminate on every tracker.
C10_AsStated ==
  \A t \in Trackers :
    /\ viewRoot(World, t, StackDepth) # NoTracker
    /\ ~dispose(World, t, StackDepth).thrown

NotHeartbeat(e) == e.name[2] # "HEARTBEAT"
Names(es) == [i \in DOMAIN es |-> es[i].name]

\* C7: in the scenario the content tracker's sink receives, heartbeats
\* aside, CONTENT_REQUEST, CONTENT_START, AD_REQUEST, AD_START, AD_END,
\* CONTENT_END in that order, and CONTENT_END reports a timeSinceStarted not
\* smaller than the time between the content sendStart and sendEnd calls.
C7_ScenarioOrder ==
  script.pc = 7 =>
    LET es == SelectSeq(trace, NotHeartbeat)
    IN /\ Names(es) = << <<"CONTENT", "REQUEST">>, <<"CONTENT", "START">>,
                         <<"AD", "REQUEST">>, <<"AD", "START">>, <<"AD", "END">>,
                         <<"CONTENT", "END">> >>
       /\ es[6].timeSinceStarted >= script.tEnd - script.tStart

\* the scenario is over, heartbeats were seen and time has passed
C7_Witness ==
  /\ script.pc = 7
  /\ script.tEnd - script.tStart > 0
  /\ \E i \in DOMAIN trace : trace[i].name = <<"AD", "HEARTBEAT">>
  /\ \E i \in DOMAIN trace : trace[i].name = <<"CONTENT", "HEARTBEAT">>

\* C11: an accepted sendAdBreakStart on an ad tracker leaves its
\* totalAdPlaytime at 0 and its parent's is-playing flag false; an accepted
\* sendAdBreakEnd leaves the parent's is-playing flag true, whatever was
\* emitted inside the break, and reports a timeSinceAdBreakBegin >= 0.
C11_AdBreakBookkeeping ==
  [][LET t == call'.t
         p == parentTracker'[t]
     IN /\ (call'.op = "sendAdBreakStart" /\ accepted') =>
              /\ isAdFlag'[t] /\ Own("BREAK_START")'
              /\ totalAdPlaytime'[t] = 0
              /\ p # NoTracker => ~isPlaying'[p]
        /\ (call'.op = "sendAdBreakEnd" /\ accepted') =>
              /\ isAdFlag'[t] /\ Own("BREAK_END")'
              /\ p # NoTracker => isPlaying'[p]
              /\ own'[1].att.timeSinceAdBreakBegin >= 0]_vars

\* an ad break that saw a whole ad ends after some time, next to a parent
\* that had started its content
C11_Witness ==
  /\ call.op = "sendAdBreakEnd" /\ accepted /\ Own("BREAK_END")
  /\ own[1].att.timeSinceAdBreakBegin > 0
  /\ parentTracker[call.t] = Content /\ isPlaying[Content]
  /\ phase[call.t] = "ENDED" /\ hist[Content].starts > 0

\* The tracker has emitted a *_START in a view that has not ended.
HasStarted(t) == hist[t].reqOpen /\ hist[t].starts > 0

ShortThreshold == 50

\* Milliseconds between the last accepted sendStart of t and now.
SinceStart(t) == (now - startedAt[t]) * InitialThreshold

\* C13 as stated: a *_BUFFER_START carries 'initial' when the buffering
\* begins within the short threshold after sendStart and no buffering has
\* completed in the view, 'seek' when it is not initial and a seek is open,
\* 'other' in every remaining case.
C13_AsStated ==
  (call.op = "sendBufferStart" /\ own # <<>>) =>
     own[1].att.bufferType =
       IF SinceStart(call.t) < ShortThreshold /\ ~initialBufferingHappened[call.t]
       THEN "initial"
       ELSE IF isSeeking(World, call.t) THEN "seek" ELSE "other"

\* The shift between the bitrate last saved and the current one, a bitrate
\* of the set none counting as absent.
Shift(current, last, none) ==
  IF current \in none \/ last \in none THEN "null"
  ELSE IF current > last THEN "up"
  ELSE IF current < last THEN "down" ELSE "null"

\* The call of getRenditionShift(save), by itself or from
\* sendRenditionChanged, with bitrate current: it answers the shift against
\* the bitrate saved for the tracker's role, saves current for that role
\* exactly when save is true and leaves the other role's bitrate alone.
ShiftStep(none) ==
  LET t == call'.t
      save == IF call'.op = "getRenditionShift" THEN arg'[2] ELSE TRUE
      last == IF isAdFlag[t] THEN lastAdRendition[t] ELSE lastRendition[t]
      saved == IF save THEN arg'[1] ELSE last
  IN (call'.op \in {"getRenditionShift", "sendRenditionChanged"}) =>
        /\ IF call'.op = "getRenditionShift"
           THEN ret' = Shift(arg'[1], last, none)
           ELSE Len(own') = 1 /\ own'[1].att.shift = Shift(arg'[1], last, none)
        /\ IF isAdFlag[t]
           THEN lastAdRendition'[t] = saved /\ lastRendition'[t] = lastRendition[t]
           ELSE lastRendition'[t] = saved /\ lastAdRendition'[t] = lastAdRendition[t]

\* C14 as stated: getRenditionShift answers 'up' / 'down' by comparing the
\* current bitrate with the one saved for the role, null when they are equal
\* or either is absent.
C14_AsStated == [][ShiftStep({NoBitrate})]_vars

\* C14 (amended): the same, a bitrate of 0 counting as absent.
C14_RenditionShift == [][ShiftStep({NoBitrate, 0})]_vars

\* 300 after a saved 800 answers 'down' and is saved for the content role,
\* next to another bitrate kept for the ad role
C14_Witness ==
  /\ call.op = "getRenditionShift" /\ arg = <<300, TRUE>> /\ ret = "down"
  /\ ~isAdFlag[call.t]
  /\ lastRendition[call.t] = 300 /\ lastAdRendition[call.t] = 500

SideChannel == {"sendDownload", "sendError", "sendRenditionChanged"}
SendOps == PhaseRestricted \cup AdOnly \cup SideChannel \cup {"sendHeartbeat"}

\* dispose() has run on the tracker: its player and tag references are null.
Disposed(t) == ~player[t]

\* C15 as stated: dispose() never fails and leaves the heartbeat timer
\* inactive and the player reference null; a send* call on a disposed
\* tracker does not throw, emits nothing and does not restart the timer.
C15_AsStated ==
  [][LET t == call'.t
     IN /\ (call'.op = "dispose") =>
              (~thrown' /\ ~heartbeat'[t] /\ ~player'[t])
        /\ (call'.op \in SendOps /\ Disposed(t)) =>
              (~thrown' /\ own' = <<>> /\ delivered' = <<>> /\ ~heartbeat'[t])]_vars

\* C16: a *_HEARTBEAT is emitted only while the tracker's view is requested
\* and not ended: sendHeartbeat before the first accepted sendRequest, or
\* after an accepted sendEnd and before the next accepted sendRequest, emits
\* nothing.
C16_HeartbeatOnlyInView ==
  [][/\ Own("HEARTBEAT")' => (call'.op = "sendHeartbeat" /\ hist[call'.t].reqOpen)
     /\ (call'.op = "sendHeartbeat" /\ ~hist[call'.t].reqOpen)
           => (own' = <<>> /\ delivered' = <<>>)]_vars

\* a heartbeat tick that arrives after the view has ended
C16_Witness ==
  /\ call.op = "sendHeartbeat" /\ ~accepted /\ own = <<>>
  /\ hist[call.t].used /\ ~hist[call.t].reqOpen /\ phase[call.t] = "ENDED"

\* C17 as stated: on a tracker that has not been disposed the heartbeat
\* timer is active exactly while a view of it is requested and not ended.
C17_AsStated ==
  \A t \in Trackers : ~Disposed(t) => (heartbeat[t] <=> hist[t].reqOpen)

\* Which of the later phase-restricted calls the state machine of t would
\* accept in the world W.
LaterAccepted(W, t) ==
  <<sendEnd(W, t).accepted, sendPause(W, t).accepted, sendResume(W, t).accepted,
    sendBufferStart(W, t, -1).accepted, sendBufferEnd(W, t, -1).accepted,
    sendSeekStart(W, t).accepted, sendSeekEnd(W, t).accepted>>

C19_AdSharesParentView ==
  [][(own' # <<>>) =>
        LET t == call'.t
            p == parentTracker'[t]
            e == own'[1]
        IN /\ (isAdFlag'[t] /\ p # NoTracker) =>
                 /\ e.att.viewId = getViewId(World', p)
                 /\ hist[p].reqOpen => e.att.viewId = hist[p].reqId
           /\ (p = NoTracker /\ hist[t].reqOpen /\ e.name[2] # "REQUEST") =>
                 e.att.viewId = hist[t].reqId]_vars

\* the parent ends its view after an ad of it has ended inside that view
C19_Witness ==
  /\ call.op = "sendEnd" /\ call.t = Content /\ Own("END")
  /\ adsTracker[Content] = Ad /\ isAdFlag[Ad]
  /\ hist[Ad].used /\ ~hist[Ad].reqOpen /\ hist[Ad].reqId = hist[Content].reqId
  /\ own[1].att.viewId = hist[Content].reqId

PairOf(k) ==
  IF k \in {"PAUSE", "RESUME"} THEN "PAUSE"
  ELSE IF k \in {"BUFFER_START", "BUFFER_END"} THEN "BUFFER"
  ELSE IF k \in {"SEEK_START", "SEEK_END"} THEN "SEEK" ELSE "none"
Opens(k) == k \in {"PAUSE", "BUFFER_START", "SEEK_START"}

\* C21: within a view the paired events alternate: a *_RESUME, *_BUFFER_END
\* or *_SEEK_END is emitted only while its pair is open, and a *_PAUSE,
\* *_BUFFER_START or *_SEEK_START only while its pair is not.
C21_PairsAlternate ==
  [][(own' # <<>> /\ PairOf(own'[1].name[2]) # "none") =>
        LET k == own'[1].name[2]
        IN Opens(k) <=> PairOf(k) \notin hist[call'.t].open]_vars

\* a seek ends while a pause of the same view is still open
C21_Witness ==
  /\ Own("SEEK_END") /\ hist[call.t].open = {"PAUSE"}
  /\ phase[call.t] = "PAUSED"

\* The world between two calls: what the last call reported is gone.
Fresh(W) == [W EXCEPT !.accepted = FALSE, !.own = <<>>, !.delivered = <<>>]

\* Once started, the view requested in W has no pause, buffering or seek
\* open: their ends are rejected and a late buffering is not a seek one.
NothingLeftOpen(W, t) ==
  LET v == Fresh(sendStart(Fresh(W), t))
      b == sendBufferStart(v, t, InitialThreshold)
  IN /\ ~sendResume(v, t).accepted
     /\ ~sendBufferEnd(v, t, -1).accepted
     /\ ~sendSeekEnd(v, t).accepted
     /\ b.accepted /\ b.own[1].att.bufferType = "other"

\* C22: sendEnd is accepted in every phase of a requested view and emits
\* one *_END; the sendRequest that follows an ended view is accepted, emits
\* a *_REQUEST, and the view it opens has no pause, buffering or seek open.
C22_EndThenRequest ==
  [][LET t == call'.t
     IN /\ (call'.op = "sendEnd" /\ hist[t].reqOpen) =>
              (accepted' /\ Len(own') = 1 /\ Own("END")')
        /\ (call'.op = "sendRequest" /\ hist[t].endedIn # "none" /\ ~hist[t].reqOpen) =>
              /\ accepted' /\ Len(own') = 1 /\ Own("REQUEST")'
              /\ hist'[t].open = {}
              /\ NothingLeftOpen(World', t)]_vars

\* a new view is requested after one that was ended while buffering inside
\* a seek
C22_Witness ==
  /\ call.op = "sendRequest" /\ accepted /\ Own("REQUEST")
  /\ hist[call.t].endedIn = "BUFFERING" /\ lastBufferType[call.t] = "seek"

\* C23: a *_BUFFER_END carries the bufferType of the *_BUFFER_START that
\* opened the buffering, and after a *_BUFFER_END of the view no
\* *_BUFFER_START of that view is 'initial'.
C23_BufferTypeKept ==
  [][(own' # <<>>) =>
        LET e == own'[1]
            h == hist[call'.t]
        IN /\ e.name[2] = "BUFFER_END" => e.att.bufferType = h.bufType
           /\ (e.name[2] = "BUFFER_START" /\ h.bufEnded) =>
                 e.att.bufferType # "initial"]_vars

\* the end of an initial buffering, reported by a caller whose attributes
\* say that the start is long past
C23_Witness ==
  /\ call.op = "sendBufferEnd" /\ Own("BUFFER_END") /\ arg = <<InitialThreshold>>
  /\ own[1].att.bufferType = "initial" /\ hist[call.t].bufEnded

\* How many times the call delivered through the sink of p.
Deliveries(p) == Cardinality({i \in DOMAIN delivered : delivered[i].sink = p})

\* C24 as stated: an event emitted by the ads tracker attached to a parent
\* is delivered through the parent's sink exactly once, however many
\* setAdsTracker calls the parent has seen.
C24_AsStated ==
  \A p \in Trackers :
    (own # <<>> /\ ~thrown /\ p # call.t
       /\ adsTracker[p] = call.t /\ parentTracker[call.t] = p
       /\ parentTracker[p] = NoTracker) =>
      Deliveries(p) = 1

\* C25 as stated: once an ads tracker is detached from a parent, no event
\* it emits goes through that parent's sink and none of its send* calls
\* changes the parent's is-playing flag or last-ad bookkeeping.
C25_AsStated ==
  [][(call'.op \in SendOps) =>
        LET p == hist[call'.t].detachedFrom
        IN p # NoTracker =>
             /\ \A i \in DOMAIN delivered' : delivered'[i].sink # p
             /\ isPlaying'[p] = isPlaying[p]
             /\ lastAd'[p] = lastAd[p]]_vars

\* C26 as stated: the is-playing flag of a content tracker with an ads
\* tracker attached is true only when its content view has started and is
\* not paused, buffering or seeking.
C26_AsStated ==
  \A t \in Trackers :
    (~isAdFlag[t] /\ adsTracker[t] # NoTracker /\ isPlaying[t]) => phase[t] = "PLAYING"

====
